---- MODULE Spec2Model ----
(***************************************************************************)
(* A model of image-metadata-editor (src/main.go): the minimal CSV codec   *)
(* (encodeCSVField, csvWriter.Write, csvReader.Read, parseCSVLine), the    *)
(* directory scanner (scanDirectory) and the title applier                 *)
(* (applyTitlesFromCSV), with the JPEG/EXIF library reduced to the         *)
(* outcomes readTitle and upsertTitle distinguish.                         *)
(*                                                                         *)
(* Text is a sequence of characters; a character is a one-element string,  *)
(* except for the four named below.  Go iterates over bytes, and every     *)
(* character the code tests is ASCII, so bytes and characters agree.       *)
(***************************************************************************)
EXTENDS Integers, Sequences, FiniteSets, TLC

VARIABLES
    text,        \* codec: the text handed to the encoder, or typed as a line
    origin,      \* codec: "none", "encoded" (line written by csvWriter.Write) or "raw"
    line,        \* codec: the line handed to parseCSVLine
    pst,         \* codec: parseCSVLine's locals (i, field, fields, inQuotes) and outcome
    files,       \* directory: file name -> file (kind, JPEG container, EXIF, caption tag)
    csv,         \* directory: the sidecar file bilder.csv (exists, content)
    env,         \* directory: listable, sidecar creatable, free bytes on disk
    pc,          \* operation: "idle", "scan", "apply", "done"
    result,      \* operation: what the operation returned ("none" while running)
    handles,     \* operation: the file handles that are open
    w,           \* scan: the csvWriter's bufio.Writer (buf, err)
    entries,     \* scan: the directory entries os.ReadDir returned
    idx,         \* scan: position of the range loop in entries
    unread,      \* apply: what the csvReader's scanner has not consumed yet
    cols,        \* apply: filenameIdx and titleIdx
    trace,       \* apply: one record per data row handled (decode error, skip, write)
    files0,      \* history: the directory as it was when the run began
    pairs        \* history: the (filename, title) rows a table was written from

codecVars == <<text, origin, line, pst>>
dirVars == <<files, csv, env>>
opVars == <<pc, result, handles, w, entries, idx, unread, cols, trace>>
histVars == <<files0, pairs>>
vars == <<text, origin, line, pst, files, csv, env, pc, result, handles, w, entries, idx,
          unread, cols, trace, files0, pairs>>

(***************************************************************************)
(* Characters                                                              *)
(***************************************************************************)
Quote == "DQUOTE"
Comma == ","
LF == "LF"
CR == "CR"
Space == " "
Tab == "TAB"
Slash == "/"
Dot == "."

Upper == <<"A", "B", "E", "F", "G", "I", "J", "L", "M", "N", "P", "T">>
Lower == <<"a", "b", "e", "f", "g", "i", "j", "l", "m", "n", "p", "t">>

\* unicode.ToLower on one character (the letters the model uses)
ToLowerCh(c) ==
    IF \E k \in 1..Len(Upper) : Upper[k] = c
    THEN Lower[CHOOSE k \in 1..Len(Upper) : Upper[k] = c]
    ELSE c

\* strings.ToLower
ToLower(s) == [k \in 1..Len(s) |-> ToLowerCh(s[k])]

\* strings.EqualFold (simple case folding; on the model's letters it is ToLower on both sides)
EqualFold(s, t) == ToLower(s) = ToLower(t)

\* unicode.IsSpace, as strings.TrimSpace uses it
IsSpace(c) == c \in {Space, Tab, LF, CR}

\* strings.TrimSpace left out
TrimSpaceNone(s) == s

\* strings.TrimSpace
TrimSpace(s) ==
    LET keep == {k \in 1..Len(s) : ~IsSpace(s[k])}
    IN  IF keep = {} THEN <<>>
        ELSE LET lo == CHOOSE k \in keep : \A m \in keep : k <= m
                 hi == CHOOSE k \in keep : \A m \in keep : k >= m
             IN  SubSeq(s, lo, hi)

\* filepath.Ext: the suffix from the last dot of the last path element
Ext(name) ==
    LET dots == {k \in 1..Len(name) :
                    /\ name[k] = Dot
                    /\ \A m \in k..Len(name) : name[m] # Slash}
    IN  IF dots = {} THEN <<>>
        ELSE SubSeq(name, CHOOSE k \in dots : \A m \in dots : k >= m, Len(name))

\* filepath.IsAbs
IsAbs(path) == Len(path) > 0 /\ path[1] = Slash

csvFilename == <<"b", "i", "l", "d", "e", "r", ".", "c", "s", "v">>
FILENAME == <<"f", "i", "l", "e", "n", "a", "m", "e">>
TITLE == <<"t", "i", "t", "l", "e">>

\* isJPEG with the extension compared as it is spelled
isJPEGCaseSensitive(name) ==
    Ext(name) = <<".", "j", "p", "g">> \/ Ext(name) = <<".", "j", "p", "e", "g">>

isJPEG(name) ==
    LET ext == ToLower(Ext(name))
    IN  ext = <<".", "j", "p", "g">> \/ ext = <<".", "j", "p", "e", "g">>

(***************************************************************************)
(* CSV codec                                                               *)
(***************************************************************************)
RECURSIVE ReplaceQuotes(_)
\* strings.ReplaceAll(field, "\"", "\"\"")
ReplaceQuotes(s) ==
    IF s = <<>> THEN <<>>
    ELSE (IF Head(s) = Quote THEN <<Quote, Quote>> ELSE <<Head(s)>>) \o ReplaceQuotes(Tail(s))

\* encodeCSVField with the quotes of the field left undoubled
encodeCSVFieldNoEscape(field) ==
    LET needsQuotes == \E k \in 1..Len(field) : field[k] \in {Quote, Comma, LF, CR}
    IN  IF ~needsQuotes THEN field
        ELSE <<Quote>> \o field \o <<Quote>>

encodeCSVField(field) ==
    LET needsQuotes == \E k \in 1..Len(field) : field[k] \in {Quote, Comma, LF, CR}
    IN  IF ~needsQuotes THEN field
        ELSE <<Quote>> \o ReplaceQuotes(field) \o <<Quote>>

RECURSIVE RecordPieces(_, _)
\* the strings csvWriter.Write hands to writeString for record, in order
RecordPieces(record, k) ==
    IF k > Len(record) THEN <<<<LF>>>>
    ELSE (IF k > 1 THEN <<<<Comma>>>> ELSE <<>>)
         \o <<encodeCSVField(record[k])>> \o RecordPieces(record, k + 1)

RECURSIVE Concat(_)
Concat(ss) == IF ss = <<>> THEN <<>> ELSE Head(ss) \o Concat(Tail(ss))

\* the bytes csvWriter.Write emits for record when no write fails
RecordBytes(record) == Concat(RecordPieces(record, 1))

\* parseCSVLine's locals before the loop; i counts from 1
ParseInit == [i |-> 1, field |-> <<>>, fields |-> <<>>, inQuotes |-> FALSE, out |-> "run"]

\* parseCSVLine's loop with the i++ of the doubled-quote case left out
ParseStepNoSkip(ln, st) ==
    IF st.i <= Len(ln)
    THEN LET ch == ln[st.i]
         IN  IF ch = Quote
             THEN IF st.inQuotes /\ st.i + 1 <= Len(ln) /\ ln[st.i + 1] = Quote
                  THEN [st EXCEPT !.field = Append(@, Quote), !.i = @ + 1]
                  ELSE [st EXCEPT !.inQuotes = ~@, !.i = @ + 1]
             ELSE IF ch = Comma
             THEN IF st.inQuotes
                  THEN [st EXCEPT !.field = Append(@, ch), !.i = @ + 1]
                  ELSE [st EXCEPT !.fields = Append(@, st.field), !.field = <<>>, !.i = @ + 1]
             ELSE [st EXCEPT !.field = Append(@, ch), !.i = @ + 1]
    ELSE IF st.inQuotes
         THEN [st EXCEPT !.out = "err"]
         ELSE [st EXCEPT !.fields = Append(@, st.field), !.out = "ok"]

\* one iteration of parseCSVLine's loop on ln, or the code after the loop
ParseStep(ln, st) ==
    IF st.i <= Len(ln)
    THEN LET ch == ln[st.i]
         IN  IF ch = Quote
             THEN IF st.inQuotes /\ st.i + 1 <= Len(ln) /\ ln[st.i + 1] = Quote
                  THEN [st EXCEPT !.field = Append(@, Quote), !.i = @ + 2]
                  ELSE [st EXCEPT !.inQuotes = ~@, !.i = @ + 1]
             ELSE IF ch = Comma
             THEN IF st.inQuotes
                  THEN [st EXCEPT !.field = Append(@, ch), !.i = @ + 1]
                  ELSE [st EXCEPT !.fields = Append(@, st.field), !.field = <<>>, !.i = @ + 1]
             ELSE [st EXCEPT !.field = Append(@, ch), !.i = @ + 1]
    ELSE IF st.inQuotes
         THEN [st EXCEPT !.out = "err"]
         ELSE [st EXCEPT !.fields = Append(@, st.field), !.out = "ok"]

RECURSIVE ParseRun(_, _)
ParseRun(ln, st) == IF st.out # "run" THEN st ELSE ParseRun(ln, ParseStep(ln, st))

\* parseCSVLine: [err |-> TRUE] or [err |-> FALSE, fields |-> the record]
parseCSVLine(ln) ==
    LET st == ParseRun(ln, ParseInit)
    IN  IF st.out = "err" THEN [err |-> TRUE, fields |-> <<>>]
        ELSE [err |-> FALSE, fields |-> st.fields]

RECURSIVE IndexOfLF(_, _)
\* position of the first \n of s at or after k, 0 when there is none
IndexOfLF(s, k) ==
    IF k > Len(s) THEN 0 ELSE IF s[k] = LF THEN k ELSE IndexOfLF(s, k + 1)

\* strings.TrimSuffix(s, "\r"); bufio's dropCR does the same
DropCR(s) == IF Len(s) > 0 /\ s[Len(s)] = CR THEN SubSeq(s, 1, Len(s) - 1) ELSE s

maxScanTokenSize == 1024 * 1024

\* csvReader.Read on the unconsumed input: bufio.Scanner with ScanLines cuts the next
\* line and drops one trailing \r, Read drops one more and calls parseCSVLine
csvReaderRead(input) ==
    LET nl == IndexOfLF(input, 1)
        raw == IF nl = 0 THEN input ELSE SubSeq(input, 1, nl - 1)
        rest == IF nl = 0 THEN <<>> ELSE SubSeq(input, nl + 1, Len(input))
        parsed == parseCSVLine(DropCR(DropCR(raw)))
    IN  IF input = <<>>
        THEN [eof |-> TRUE, err |-> FALSE, fields |-> <<>>, rest |-> <<>>]
        ELSE IF Len(raw) >= maxScanTokenSize
        THEN [eof |-> FALSE, err |-> TRUE, fields |-> <<>>, rest |-> input]
        ELSE [eof |-> FALSE, err |-> parsed.err, fields |-> parsed.fields, rest |-> rest]

\* headerIndex with the column taken by its place in the file (filename first, title second)
headerIndexByPosition(header, name) ==
    IF name = FILENAME THEN (IF Len(header) >= 1 THEN 0 ELSE -1)
    ELSE (IF Len(header) >= 2 THEN 1 ELSE -1)

\* headerIndex: the 0-based index of the first column named name, -1 when there is none
headerIndex(header, name) ==
    LET hits == {k \in 1..Len(header) : EqualFold(TrimSpace(header[k]), name)}
    IN  IF hits = {} THEN -1
        ELSE (CHOOSE k \in hits : \A m \in hits : k <= m) - 1

(***************************************************************************)
(* The JPEG/EXIF library, as far as readTitle and upsertTitle tell its     *)
(* outcomes apart.  A file is                                              *)
(*   kind    "regular" or "dir"                                            *)
(*   parses  whether ParseFile accepts the container                       *)
(*   exif    whether the segment list holds an EXIF block                  *)
(*   tag     the ImageDescription tag: its shape and its values            *)
(*   ro      whether os.Create on the file fails                           *)
(***************************************************************************)
NoTag == [shape |-> "absent", v |-> <<>>]

\* readTitle(path) for the file called name in the directory fs
readTitle(fs, name) ==
    IF name \notin DOMAIN fs \/ fs[name].kind # "regular" \/ ~fs[name].parses
    THEN [err |-> TRUE, title |-> <<>>]                    \* mp.ParseFile fails
    ELSE IF ~fs[name].exif
    THEN [err |-> TRUE, title |-> <<>>]                    \* sl.Exif() fails
    ELSE LET tag == fs[name].tag
         IN  IF tag.shape \in {"absent", "noresults", "valueerr"}
             THEN [err |-> FALSE, title |-> <<>>]
             ELSE IF tag.shape \in {"string", "bytes"}
             THEN [err |-> FALSE, title |-> tag.v[1]]
             ELSE IF tag.shape \in {"strings", "byteslist"} /\ Len(tag.v) > 0
             THEN [err |-> FALSE, title |-> tag.v[1]]
             ELSE [err |-> FALSE, title |-> <<>>]

\* upsertTitle(path, title): the directory after the call, and whether it failed
upsertTitle(fs, path, title) ==
    IF path.abs \/ path.name \notin DOMAIN fs
       \/ fs[path.name].kind # "regular" \/ ~fs[path.name].parses
    THEN [err |-> TRUE, fs |-> fs]                         \* mp.ParseFile fails
    ELSE IF fs[path.name].ro
    THEN [err |-> TRUE, fs |-> fs]                         \* os.Create fails
    ELSE [err |-> FALSE,
          fs |-> [fs EXCEPT ![path.name].exif = TRUE,
                            ![path.name].tag = [shape |-> "string", v |-> <<title>>]]]

\* the path applyTitlesFromCSV hands to upsertTitle: absolute as it is, else joined to
\* the directory.  The model holds one directory; an absolute path names no file of it,
\* and no filename of the model has a "." or ".." element for filepath.Join to clean.
ResolvePath(filename) == [abs |-> IsAbs(filename), name |-> filename]

(***************************************************************************)
(* applyTitlesFromCSV                                                      *)
(***************************************************************************)
\* the part of applyTitlesFromCSV before the loop, on the sidecar file f
ApplyOpen(f) ==
    LET r == csvReaderRead(f.content)
        fi == headerIndex(r.fields, FILENAME)
        ti == headerIndex(r.fields, TITLE)
        stop(msg) == [status |-> "err", msg |-> msg, unread |-> <<>>,
                      cols |-> [filenameIdx |-> 0, titleIdx |-> 0]]
    IN  IF ~f.exists THEN stop("open csv")
        ELSE IF r.eof \/ r.err THEN stop("read header")
        ELSE IF fi = -1 \/ ti = -1 THEN stop("csv must include filename and title columns")
        ELSE [status |-> "run", msg |-> "", unread |-> r.rest,
              cols |-> [filenameIdx |-> fi, titleIdx |-> ti]]

\* the title of a row, a short row taking its last field for it
RowTitleLastField(record, c) ==
    IF c.titleIdx < Len(record) THEN record[c.titleIdx + 1] ELSE record[Len(record)]

\* the title applyTitlesFromCSV takes from a row: the field at titleIdx, or "" when the
\* row is too short to have one
RowTitle(record, c) ==
    IF c.titleIdx < Len(record) THEN record[c.titleIdx + 1] ELSE <<>>

\* one iteration of the loop that goes on to the next row after a failed write
ApplyRowKeepGoing(st, c) ==
    LET r == csvReaderRead(st.unread)
        record == r.fields
        row == Len(st.trace) + 1
        entry(act, path, title, ok) ==
            [row |-> row, fields |-> record, act |-> act, path |-> path,
             title |-> title, ok |-> ok]
        none == [abs |-> FALSE, name |-> <<>>]
        filename == TrimSpace(record[c.filenameIdx + 1])
        title == RowTitle(record, c)
        path == ResolvePath(filename)
        u == upsertTitle(st.files, path, title)
    IN  IF r.eof THEN [st EXCEPT !.status = IF st.msg = "" THEN "ok" ELSE "err"]
        ELSE IF r.err
        THEN [st EXCEPT !.status = "err", !.msg = "read record",
                        !.trace = Append(@, entry("decode_error", none, <<>>, FALSE))]
        ELSE IF c.filenameIdx >= Len(record) \/ filename = <<>>
        THEN [st EXCEPT !.unread = r.rest,
                        !.trace = Append(@, entry("skip", none, <<>>, TRUE))]
        ELSE IF u.err
        THEN [st EXCEPT !.unread = r.rest, !.msg = "apply title", !.at = filename,
                        !.trace = Append(@, entry("write", path, title, FALSE))]
        ELSE [st EXCEPT !.unread = r.rest, !.files = u.fs,
                        !.trace = Append(@, entry("write", path, title, TRUE))]

\* one iteration of applyTitlesFromCSV's loop; st holds the directory's files, the
\* unread input, the rows handled so far and the status, c the two column indices
ApplyRow(st, c) ==
    LET r == csvReaderRead(st.unread)
        record == r.fields
        row == Len(st.trace) + 1
        entry(act, path, title, ok) ==
            [row |-> row, fields |-> record, act |-> act, path |-> path,
             title |-> title, ok |-> ok]
        none == [abs |-> FALSE, name |-> <<>>]
        filename == TrimSpace(record[c.filenameIdx + 1])
        title == RowTitle(record, c)
        path == ResolvePath(filename)
        u == upsertTitle(st.files, path, title)
    IN  IF r.eof THEN [st EXCEPT !.status = "ok"]
        ELSE IF r.err
        THEN [st EXCEPT !.status = "err", !.msg = "read record",
                        !.trace = Append(@, entry("decode_error", none, <<>>, FALSE))]
        ELSE IF c.filenameIdx >= Len(record) \/ filename = <<>>
        THEN [st EXCEPT !.unread = r.rest,
                        !.trace = Append(@, entry("skip", none, <<>>, TRUE))]
        ELSE IF u.err
        THEN [st EXCEPT !.unread = r.rest, !.status = "err", !.msg = "apply title",
                        !.at = filename,
                        !.trace = Append(@, entry("write", path, title, FALSE))]
        ELSE [st EXCEPT !.unread = r.rest, !.files = u.fs,
                        !.trace = Append(@, entry("write", path, title, TRUE))]

RECURSIVE ApplyLoop(_, _)
ApplyLoop(st, c) == IF st.status # "run" THEN st ELSE ApplyLoop(ApplyRow(st, c), c)

\* applyTitlesFromCSV as a function of the directory: the rows handled, the files
\* after the run and what the run returned
applyTitlesFromCSV(fs, f) ==
    LET o == ApplyOpen(f)
        st0 == [files |-> fs, unread |-> o.unread, trace |-> <<>>,
                status |-> o.status, msg |-> o.msg, at |-> <<>>]
        end == ApplyLoop(st0, o.cols)
    IN  [trace |-> end.trace, files |-> end.files, status |-> end.status, msg |-> end.msg]

(***************************************************************************)
(* The codec on its own: a text is encoded as a one-field record, or typed *)
(* as a line by hand, and parseCSVLine runs on it one loop iteration at a  *)
(* time.                                                                   *)
(***************************************************************************)
MaxLen == 4

CodecAlphabet == {"a", "b", Comma, Quote, LF, CR}

RECURSIVE TextsOver(_, _)
TextsOver(alphabet, n) ==
    IF n = 0 THEN {<<>>}
    ELSE LET shorter == TextsOver(alphabet, n - 1)
         IN  shorter \cup {Append(t, c) : t \in {u \in shorter : Len(u) = n - 1}, c \in alphabet}

Idle == [i |-> 1, field |-> <<>>, fields |-> <<>>, inQuotes |-> FALSE, out |-> "idle"]

NoFile == [exists |-> FALSE, content |-> <<>>]
NoResult == [status |-> "none", msg |-> "", at |-> <<>>]
NoResults == [scan |-> NoResult, apply |-> NoResult]
NoPairs == [order |-> "raw", header |-> <<>>, rows |-> <<>>]
NoWriter == [buf |-> <<>>, err |-> FALSE]
NoCols == [filenameIdx |-> 0, titleIdx |-> 0]

\* the values the directory and the operation have while only the codec runs
DirQuiet ==
    /\ files = <<>>
    /\ csv = NoFile
    /\ env = [listable |-> TRUE, creatable |-> TRUE, disk |-> 0]
    /\ files0 = <<>>
    /\ pairs = NoPairs

OpQuiet ==
    /\ pc = "idle"
    /\ result = NoResults
    /\ handles = {}
    /\ w = NoWriter
    /\ entries = <<>>
    /\ idx = 0
    /\ unread = <<>>
    /\ cols = NoCols
    /\ trace = <<>>

CodecQuiet ==
    /\ text = <<>>
    /\ origin = "none"
    /\ line = <<>>
    /\ pst = Idle

CodecInit ==
    /\ text \in TextsOver(CodecAlphabet, MaxLen)
    /\ origin = "none"
    /\ line = <<>>
    /\ pst = Idle
    /\ DirQuiet
    /\ OpQuiet

\* csvWriter.Write([text]) and the line of it handed to parseCSVLine
EncodeLine ==
    /\ origin = "none"
    /\ origin' = "encoded"
    /\ line' = LET bytes == RecordBytes(<<text>>) IN SubSeq(bytes, 1, Len(bytes) - 1)
    /\ pst' = ParseInit
    /\ UNCHANGED <<text, dirVars, opVars, histVars>>

\* parseCSVLine called on a line that no encoder wrote
RawLine ==
    /\ origin = "none"
    /\ origin' = "raw"
    /\ line' = text
    /\ pst' = ParseInit
    /\ UNCHANGED <<text, dirVars, opVars, histVars>>

ParseChar ==
    /\ pst.out = "run"
    /\ pst' = ParseStep(line, pst)
    /\ UNCHANGED <<text, origin, line, dirVars, opVars, histVars>>

CodecNext == EncodeLine \/ RawLine \/ ParseChar

SpecCodec == CodecInit /\ [][CodecNext]_vars

\* C1: decoding the encoding of the one-field record [t] succeeds and the first field
\* of the record it returns is t, for every t over ordinary characters, commas, double
\* quotes, \n and \r, the empty text included.
C1_RoundTrip ==
    (origin = "encoded" /\ pst.out # "run") =>
        /\ pst.out = "ok"
        /\ Len(pst.fields) >= 1
        /\ pst.fields[1] = text
        /\ parseCSVLine(line) = [err |-> FALSE, fields |-> pst.fields]

C1_Witness ==
    /\ origin = "encoded"
    /\ pst.out = "ok"
    /\ \E i, j, k \in 1..Len(text) : text[i] = Quote /\ text[j] = Comma /\ text[k] = LF
    /\ pst.fields[1] = text

RECURSIVE QuoteFlagAtEnd(_, _, _)
\* the inside-quotes flag after a left-to-right scan of ln from position k: a quote
\* toggles it unless it is inside quotes and directly followed by another quote
QuoteFlagAtEnd(ln, k, inside) ==
    IF k > Len(ln) THEN inside
    ELSE IF ln[k] # Quote THEN QuoteFlagAtEnd(ln, k + 1, inside)
    ELSE IF inside /\ k < Len(ln) /\ ln[k + 1] = Quote THEN QuoteFlagAtEnd(ln, k + 2, inside)
    ELSE QuoteFlagAtEnd(ln, k + 1, ~inside)

UnterminatedLine == <<"a", Comma, Quote, "b">>

\* C10: parseCSVLine fails exactly when the scan ends with the inside-quotes flag set;
\* the line a,"b fails, and a line that ends outside quotes yields a record.
C10_UnterminatedQuote ==
    (origin # "none" /\ pst.out # "run") =>
        /\ (pst.out = "err") <=> QuoteFlagAtEnd(line, 1, FALSE)
        /\ (pst.out = "ok") <=> ~QuoteFlagAtEnd(line, 1, FALSE)
        /\ line = UnterminatedLine => pst.out = "err"
        /\ pst.out = "ok" => Len(pst.fields) >= 1

C10_Witness ==
    /\ origin = "raw"
    /\ line = UnterminatedLine
    /\ pst.out = "err"

(***************************************************************************)
(* applyTitlesFromCSV as a process: the code before the loop, then one     *)
(* loop iteration at a time.  The deferred file.Close() runs in the step   *)
(* that returns.                                                           *)
(***************************************************************************)
ApplyBegin ==
    /\ pc = "idle"
    /\ result.apply.status = "none"
    /\ LET o == ApplyOpen(csv)
       IN  /\ unread' = o.unread
           /\ cols' = o.cols
           /\ trace' = <<>>
           /\ IF o.status = "run"
              THEN /\ pc' = "apply"
                   /\ handles' = handles \cup {"csv"}
                   /\ result' = result
              ELSE /\ pc' = "idle"
                   /\ handles' = handles
                   /\ result' = [result EXCEPT !.apply =
                                    [status |-> "err", msg |-> o.msg, at |-> <<>>]]
    /\ UNCHANGED <<codecVars, dirVars, w, entries, idx, histVars>>

ApplyIterate ==
    /\ pc = "apply"
    /\ LET st == [files |-> files, unread |-> unread, trace |-> trace, status |-> "run",
                  msg |-> result.apply.msg, at |-> result.apply.at]
           n == ApplyRow(st, cols)
       IN  /\ files' = n.files
           /\ unread' = n.unread
           /\ trace' = n.trace
           /\ result' = [result EXCEPT !.apply =
                            [status |-> IF n.status = "run" THEN "none" ELSE n.status,
                             msg |-> n.msg, at |-> n.at]]
           /\ IF n.status = "run"
              THEN pc' = "apply" /\ handles' = handles
              ELSE pc' = "idle" /\ handles' = handles \ {"csv"}
    /\ UNCHANGED <<codecVars, csv, env, w, entries, idx, cols, histVars>>

(***************************************************************************)
(* bufio.Writer under the csvWriter.  Its buffer holds BufSize bytes (4096 *)
(* in the library, scaled down here so that rows spill into the file).  A  *)
(* writer state is the buffer, the sticky error, the file's content and    *)
(* the free bytes on the disk.                                             *)
(***************************************************************************)
BufSize == 8

\* bufio.Writer.Flush: the buffer goes to the file; a disk that fills up takes what
\* fits, and the rest stays in the buffer with the error set
BufFlush(b) ==
    IF b.err \/ b.buf = <<>> THEN b
    ELSE IF Len(b.buf) <= b.disk
    THEN [b EXCEPT !.content = @ \o b.buf, !.disk = @ - Len(b.buf), !.buf = <<>>]
    ELSE [b EXCEPT !.content = @ \o SubSeq(b.buf, 1, b.disk), !.disk = 0,
                   !.buf = SubSeq(b.buf, b.disk + 1, Len(b.buf)), !.err = TRUE]

RECURSIVE BufWriteString(_, _)
\* bufio.Writer.WriteString, as csvWriter.writeString calls it: while the string does
\* not fit, fill the buffer and flush it
BufWriteString(b, str) ==
    LET avail == BufSize - Len(b.buf)
    IN  IF b.err THEN b
        ELSE IF Len(str) > avail
        THEN BufWriteString(BufFlush([b EXCEPT !.buf = @ \o SubSeq(str, 1, avail)]),
                            SubSeq(str, avail + 1, Len(str)))
        ELSE [b EXCEPT !.buf = @ \o str]

RECURSIVE BufWritePieces(_, _)
BufWritePieces(b, pieces) ==
    IF pieces = <<>> \/ b.err THEN b
    ELSE BufWritePieces(BufWriteString(b, Head(pieces)), Tail(pieces))

\* csvWriter.Write(record): one writeString per separator and field, stopping at the
\* first that fails
csvWriterWrite(b, record) == BufWritePieces(b, RecordPieces(record, 1))

(***************************************************************************)
(* scanDirectory as a process: the code before the loop, one entry of the  *)
(* range loop at a time, then the flush.  The deferred file.Close() runs   *)
(* in the step that returns; nothing flushes the writer there.             *)
(* filepath.Abs fails only when the working directory cannot be found,     *)
(* which no directory of the model has happen.                             *)
(***************************************************************************)
N_TXT == <<"n", ".", "t", "x", "t">>
S_JPG == <<"s", ".", "j", "p", "g">>
C_JPG == <<Space, "c", ".", "j", "p", "g">>
B_JPEG == <<"B", ".", "J", "P", "E", "G">>
A_JPG == <<"a", ".", "j", "p", "g">>
B_JPG == <<"b", ".", "j", "p", "g">>

\* the names of the model's directories in the order os.ReadDir lists them (by name)
SortedNames == <<C_JPG, B_JPEG, A_JPG, B_JPG, csvFilename, N_TXT, S_JPG>>

\* os.ReadDir: the entries of the directory, sorted by name
ReadDir(fs, f) ==
    LET present == [k \in 1..Len(SortedNames) |->
                        \/ SortedNames[k] \in DOMAIN fs
                        \/ (SortedNames[k] = csvFilename /\ f.exists)]
        entry(n) == [name |-> n,
                     kind |-> IF n \in DOMAIN fs THEN fs[n].kind ELSE "regular"]
        F[k \in 0..Len(SortedNames)] ==
            IF k = 0 THEN <<>>
            ELSE IF present[k] THEN Append(F[k - 1], entry(SortedNames[k])) ELSE F[k - 1]
    IN  F[Len(SortedNames)]

ScanReturn(status, msg, at) ==
    /\ pc' = "idle"
    /\ handles' = handles \ {"csv"}
    /\ result' = [result EXCEPT !.scan = [status |-> status, msg |-> msg, at |-> at]]

ScanBegin ==
    /\ pc = "idle"
    /\ result.scan.status = "none"
    /\ result.apply.status = "none"
    /\ LET b == csvWriterWrite([buf |-> <<>>, err |-> FALSE, content |-> <<>>,
                                disk |-> env.disk], <<FILENAME, TITLE>>)
       IN  IF ~env.listable
           THEN /\ ScanReturn("err", "read directory", <<>>)
                /\ UNCHANGED <<csv, env, w, entries, idx>>
           ELSE IF ~env.creatable
           THEN /\ ScanReturn("err", "create csv", <<>>)
                /\ entries' = ReadDir(files, csv)
                /\ UNCHANGED <<csv, env, w, idx>>
           ELSE /\ entries' = ReadDir(files, csv)
                /\ csv' = [exists |-> TRUE, content |-> b.content]
                /\ env' = [env EXCEPT !.disk = b.disk]
                /\ w' = [buf |-> b.buf, err |-> b.err]
                /\ idx' = 1
                /\ IF b.err
                   THEN ScanReturn("err", "write header", <<>>)
                   ELSE /\ pc' = "scan"
                        /\ handles' = handles \cup {"csv"}
                        /\ result' = result
    /\ UNCHANGED <<codecVars, files, unread, cols, trace, histVars>>

ScanEntry ==
    /\ pc = "scan"
    /\ idx <= Len(entries)
    /\ LET entry == entries[idx]
           name == entry.name
           rt == readTitle(files, name)
           b == csvWriterWrite([buf |-> w.buf, err |-> w.err, content |-> csv.content,
                                disk |-> env.disk], <<name, rt.title>>)
       IN  IF entry.kind # "regular" \/ EqualFold(name, csvFilename) \/ ~isJPEG(name)
           THEN /\ idx' = idx + 1
                /\ UNCHANGED <<csv, env, w, pc, handles, result>>
           ELSE IF rt.err
           THEN /\ ScanReturn("err", "read title", name)
                /\ UNCHANGED <<csv, env, w, idx>>
           ELSE /\ csv' = [csv EXCEPT !.content = b.content]
                /\ env' = [env EXCEPT !.disk = b.disk]
                /\ w' = [buf |-> b.buf, err |-> b.err]
                /\ IF b.err
                   THEN ScanReturn("err", "write row", name) /\ idx' = idx
                   ELSE idx' = idx + 1 /\ UNCHANGED <<pc, handles, result>>
    /\ UNCHANGED <<codecVars, files, entries, unread, cols, trace, histVars>>

ScanFlush ==
    /\ pc = "scan"
    /\ idx > Len(entries)
    /\ LET b == BufFlush([buf |-> w.buf, err |-> w.err, content |-> csv.content,
                          disk |-> env.disk])
       IN  /\ csv' = [csv EXCEPT !.content = b.content]
           /\ env' = [env EXCEPT !.disk = b.disk]
           /\ w' = [buf |-> b.buf, err |-> b.err]
           /\ IF b.err THEN ScanReturn("err", "flush csv", <<>>)
              ELSE ScanReturn("ok", "", <<>>)
    /\ UNCHANGED <<codecVars, files, entries, idx, unread, cols, trace, histVars>>

(***************************************************************************)
(* Tables written by hand, and directories to apply them to                *)
(***************************************************************************)
MaxRows == 2

OldTitle == <<"o", "l", "d">>
NewTitle == <<"n", "e", "w">>

Absent == [kind |-> "absent"]
Image(tag) == [kind |-> "regular", parses |-> TRUE, exif |-> TRUE, tag |-> tag, ro |-> FALSE]
Captioned(t) == Image([shape |-> "string", v |-> <<t>>])
ReadOnly(f) == [f EXCEPT !.ro = TRUE]
Corrupt == [kind |-> "regular", parses |-> FALSE, exif |-> FALSE, tag |-> NoTag, ro |-> FALSE]
NoExif == [kind |-> "regular", parses |-> TRUE, exif |-> FALSE, tag |-> NoTag, ro |-> FALSE]
Folder == [kind |-> "dir", parses |-> FALSE, exif |-> FALSE, tag |-> NoTag, ro |-> FALSE]

\* the directory in which each name of DOMAIN c holds the file c gives it, if any
DirOf(c) == [n \in {m \in DOMAIN c : c[m].kind # "absent"} |-> c[n]]

ApplyDirs ==
    {DirOf([n \in {A_JPG, B_JPG} |-> IF n = A_JPG THEN a ELSE b]) :
        a \in {Absent, Captioned(OldTitle), ReadOnly(Captioned(OldTitle)), Corrupt},
        b \in {NoExif}}

PairDirs ==
    {DirOf([n \in {A_JPG, B_JPG} |-> IF n = A_JPG THEN a ELSE b]) :
        a \in {Captioned(OldTitle), ReadOnly(Captioned(OldTitle))},
        b \in {NoExif}}

Headers ==
    { FILENAME \o <<Comma>> \o TITLE,
      TITLE \o <<Comma>> \o FILENAME,
      FILENAME \o <<Comma, "x", Comma>> \o TITLE,
      <<"n", "a", "m", "e", Comma>> \o TITLE }

RawRows ==
    { A_JPG \o <<Comma>> \o NewTitle,
      A_JPG,
      <<Comma>> \o NewTitle,
      <<Space, Comma>> \o NewTitle,
      A_JPG \o <<Comma, Quote, "n">>,
      B_JPG \o <<Comma, Quote, "n", Comma, "w", Quote>>,
      <<Slash>> \o A_JPG \o <<Comma>> \o NewTitle,
      <<>>,
      A_JPG \o <<Comma>> \o NewTitle \o <<CR>> }

RECURSIVE LinesOf(_)
LinesOf(rows) == IF rows = <<>> THEN <<>> ELSE Head(rows) \o <<LF>> \o LinesOf(Tail(rows))

TableOf(header, rows) == header \o <<LF>> \o LinesOf(rows)

\* tables written from (filename, title) rows, the columns in either order
PairFilenames == {A_JPG, <<Space>> \o B_JPG, <<>>}
PairTitles == {<<>>, NewTitle, <<"n", Comma, Quote, "w">>, <<"n", LF, "w">>}
PairHeaders ==
    [ft |-> {FILENAME \o <<Comma>> \o TITLE,
             <<"F", "i", "l", "e", "n", "a", "m", "e", Comma, Space>> \o TITLE},
     tf |-> {TITLE \o <<Comma>> \o FILENAME,
             <<"T", "I", "T", "L", "E", Comma>> \o FILENAME \o <<Space>>}]

RECURSIVE PairLines(_, _)
PairLines(order, rows) ==
    IF rows = <<>> THEN <<>>
    ELSE RecordBytes(IF order = "ft" THEN <<Head(rows)[1], Head(rows)[2]>>
                     ELSE <<Head(rows)[2], Head(rows)[1]>>)
         \o PairLines(order, Tail(rows))

PairTable(order, header, rows) == header \o <<LF>> \o PairLines(order, rows)

ApplyInit ==
    /\ CodecQuiet
    /\ OpQuiet
    /\ env = [listable |-> TRUE, creatable |-> TRUE, disk |-> 0]
    /\ \/ /\ files \in ApplyDirs
          /\ pairs = NoPairs
          /\ \E h \in Headers, rows \in TextsOver(RawRows, MaxRows) :
                csv = [exists |-> TRUE, content |-> TableOf(h, rows)]
       \/ /\ files \in PairDirs
          /\ \E order \in {"ft", "tf"}, rows \in TextsOver(PairFilenames \X PairTitles, MaxRows) :
                \E h \in PairHeaders[order] :
                    /\ pairs = [order |-> order, header |-> h, rows |-> rows]
                    /\ csv = [exists |-> TRUE, content |-> PairTable(order, h, rows)]
    /\ files0 = files

ApplyNext == ApplyBegin \/ ApplyIterate

SpecApply == ApplyInit /\ [][ApplyNext]_vars

(***************************************************************************)
(* Properties of applyTitlesFromCSV                                        *)
(***************************************************************************)
ApplyReturned == pc = "idle" /\ result.apply.status # "none"

\* a row the reader decoded
Decoded(e) == e.act # "decode_error"

\* the row has no filename: its fields do not reach the filename column, or the field
\* there holds nothing but whitespace
NoFilename(e) ==
    \/ cols.filenameIdx >= Len(e.fields)
    \/ \A k \in 1..Len(e.fields[cols.filenameIdx + 1]) :
            IsSpace(e.fields[cols.filenameIdx + 1][k])

\* the row has no title field
NoTitleField(e) == cols.titleIdx >= Len(e.fields)

\* after row k the run has not failed: it handled a later row, is still in the loop, or
\* returned without error
WentOnAfter(k) ==
    \/ k < Len(trace)
    \/ pc = "apply"
    \/ result.apply.status = "ok"

\* C3 as stated: a row with fewer fields than the title column needs is skipped, with
\* no write-caption call and no error, and the rows after it are handled.
C3_ShortRowSkipped ==
    \A k \in 1..Len(trace) :
        (Decoded(trace[k]) /\ NoTitleField(trace[k])) =>
            trace[k].act = "skip" /\ WentOnAfter(k)

\* C3 amended: a row too short to hold a title field raises no decode error; when it
\* has a filename, write-caption is called for it with the empty text as title, and
\* otherwise it is skipped; unless that call fails, the rows after it are handled.
C3_ShortRowEmptyTitle ==
    \A k \in 1..Len(trace) :
        (Decoded(trace[k]) /\ NoTitleField(trace[k])) =>
            /\ IF NoFilename(trace[k])
               THEN trace[k].act = "skip"
               ELSE trace[k].act = "write" /\ trace[k].title = <<>>
            /\ trace[k].ok => WentOnAfter(k)

C3_Witness ==
    /\ Len(trace) = 2
    /\ Decoded(trace[1]) /\ NoTitleField(trace[1])
    /\ trace[1].act = "write" /\ trace[1].title = <<>> /\ trace[1].ok
    /\ trace[1].path.name = A_JPG
    /\ files[A_JPG].tag.v = <<<<>>>>
    /\ trace[2].act = "write"

\* C4: a row whose filename field is empty after trimming, or whose fields do not
\* reach the filename column, triggers no write-caption call and no error, and the
\* next row is handled.
C4_SkipEmptyFilename ==
    \A k \in 1..Len(trace) :
        (Decoded(trace[k]) /\ NoFilename(trace[k])) =>
            trace[k].act = "skip" /\ WentOnAfter(k)

C4_Witness ==
    /\ Len(trace) = 2
    /\ Len(trace[1].fields) = 2
    /\ trace[1].fields[cols.filenameIdx + 1] = <<Space>>
    /\ trace[1].act = "skip"
    /\ trace[2].act = "write" /\ trace[2].ok
    /\ trace[2].path.name = A_JPG

\* the write-caption calls of a run, in order
RECURSIVE Calls(_)
Calls(tr) ==
    IF tr = <<>> THEN <<>>
    ELSE (IF Head(tr).act = "write"
          THEN <<[path |-> Head(tr).path, title |-> Head(tr).title, ok |-> Head(tr).ok]>>
          ELSE <<>>) \o Calls(Tail(tr))

\* C5: a table with header title,filename and the fields of each row swapped is
\* applied as the table with header filename,title is: the same write-caption calls in
\* the same order and the same result, whatever the case and the padding of the header
\* names.
C5_HeaderIndependence ==
    (pairs.order # "raw" /\ ApplyReturned) =>
        \A order \in {"ft", "tf"} : \A h \in PairHeaders[order] :
            LET other == applyTitlesFromCSV(files0,
                            [exists |-> TRUE, content |-> PairTable(order, h, pairs.rows)])
            IN  /\ Calls(other.trace) = Calls(trace)
                /\ other.status = result.apply.status
                /\ other.msg = result.apply.msg
                /\ other.files = files

C5_Witness ==
    /\ pairs.order = "tf"
    /\ ApplyReturned
    /\ Len(trace) = 2
    /\ \E k \in 1..2 :
          /\ trace[k].act = "write" /\ trace[k].ok
          /\ trace[k].path.name = A_JPG
          /\ trace[k].title = <<"n", Comma, Quote, "w">>
    /\ files[A_JPG].tag.v # files0[A_JPG].tag.v

RECURSIVE SplitLines(_)
\* the physical lines of a file's content
SplitLines(content) ==
    IF content = <<>> THEN <<>>
    ELSE IF \A k \in 1..Len(content) : content[k] # LF THEN <<content>>
    ELSE LET nl == CHOOSE k \in 1..Len(content) :
                        content[k] = LF /\ \A m \in 1..(k - 1) : content[m] # LF
         IN  <<SubSeq(content, 1, nl - 1)>> \o SplitLines(SubSeq(content, nl + 1, Len(content)))

Failed(e) == e.act = "decode_error" \/ (e.act = "write" /\ ~e.ok)

RECURSIVE Replay(_, _)
\* the directory fs after the successful write-caption calls of tr, in order
Replay(fs, tr) ==
    IF tr = <<>> THEN fs
    ELSE IF Head(tr).act = "write" /\ Head(tr).ok
    THEN Replay([fs EXCEPT ![Head(tr).path.name] =
                    [@ EXCEPT !.exif = TRUE,
                              !.tag = [shape |-> "string", v |-> <<Head(tr).title>>]]],
                Tail(tr))
    ELSE Replay(fs, Tail(tr))

\* C8: rows are handled one at a time in table order; a row that fails to decode or
\* whose write-caption call fails ends the run with an error, so that no later row
\* is handled and nothing is retried, and the captions written before stay written.
C8_FailFastNoRollback ==
    LET rows == Tail(SplitLines(csv.content))
    IN  /\ Len(trace) <= Len(rows)
        /\ \A k \in 1..Len(trace) :
              /\ trace[k].row = k
              /\ Decoded(trace[k]) =>
                    trace[k].fields = parseCSVLine(DropCR(DropCR(rows[k]))).fields
              /\ ~Decoded(trace[k]) => parseCSVLine(DropCR(DropCR(rows[k]))).err
              /\ Failed(trace[k]) =>
                    /\ k = Len(trace)
                    /\ pc = "idle"
                    /\ result.apply.status = "err"
        /\ (pc = "apply" \/ trace # <<>>) =>
              /\ result.apply.status = "err" => Failed(trace[Len(trace)])
              /\ result.apply.status = "ok" => Len(trace) = Len(rows)
        /\ files = Replay(files0, trace)

C8_Witness ==
    /\ Len(trace) = 2
    /\ trace[1].act = "write" /\ trace[1].ok /\ trace[1].title = NewTitle
    /\ Failed(trace[2])
    /\ result.apply.status = "err"
    /\ files[A_JPG].tag.v = <<NewTitle>>
    /\ files0[A_JPG].tag.v = <<OldTitle>>

(***************************************************************************)
(* Scan, then apply: directories of images, a sidecar file that is absent  *)
(* or left over from an earlier run, and a disk that may fill up.          *)
(***************************************************************************)
DiskPlenty == 400

Captions ==
    { <<>>, OldTitle, <<"o", Comma, "d">>, <<"o", Quote, "d">>, <<"o", LF, "d">>,
      <<Space, "o", Space>>, <<"o", CR>> }

Tags ==
    { NoTag,
      [shape |-> "noresults", v |-> <<>>],
      [shape |-> "valueerr", v |-> <<>>],
      [shape |-> "strings", v |-> <<OldTitle, NewTitle>>],
      [shape |-> "strings", v |-> <<>>],
      [shape |-> "bytes", v |-> <<OldTitle>>],
      [shape |-> "byteslist", v |-> <<OldTitle, NewTitle>>],
      [shape |-> "other", v |-> <<>>] }

SyncChoices ==
    [n \in {A_JPG, B_JPEG, C_JPG, N_TXT, S_JPG} |->
        IF n = A_JPG
        THEN {Absent, NoExif, Corrupt, ReadOnly(Captioned(OldTitle))}
             \cup {Captioned(t) : t \in Captions} \cup {Image(tag) : tag \in Tags}
        ELSE IF n = B_JPEG THEN {Absent, Captioned(NewTitle)}
        ELSE IF n = C_JPG THEN {Absent, Captioned(OldTitle)}
        ELSE IF n = N_TXT THEN {Absent, Corrupt}
        ELSE {Absent, Folder}]

SyncDirs ==
    {DirOf(c) : c \in {d \in [DOMAIN SyncChoices -> UNION {SyncChoices[n] : n \in DOMAIN SyncChoices}] :
                            \A n \in DOMAIN SyncChoices : d[n] \in SyncChoices[n]}}

StaleTable == TableOf(FILENAME \o <<Comma>> \o TITLE, <<A_JPG \o <<Comma>> \o NewTitle>>)

SyncInit ==
    /\ CodecQuiet
    /\ OpQuiet
    /\ pairs = NoPairs
    /\ files \in SyncDirs
    /\ files0 = files
    /\ csv \in {NoFile, [exists |-> TRUE, content |-> StaleTable]}
    /\ env \in {[listable |-> TRUE, creatable |-> TRUE, disk |-> d] :
                    d \in {0, 2 * BufSize + 4, DiskPlenty}}
               \cup {[listable |-> FALSE, creatable |-> TRUE, disk |-> DiskPlenty],
                     [listable |-> TRUE, creatable |-> FALSE, disk |-> DiskPlenty]}

SyncNext == ScanBegin \/ ScanEntry \/ ScanFlush \/ ApplyBegin \/ ApplyIterate

SpecSync == SyncInit /\ [][SyncNext]_vars

ScanReturned == pc = "idle" /\ result.scan.status # "none"

\* C2 as stated: a scan followed by an apply of the unedited sidecar file ends without
\* error and leaves every image's caption, as read-caption returns it, as it was
\* before the scan (no image being write-protected).
C2_ScanApplyIdempotent ==
    (result.scan.status = "ok" /\ ApplyReturned /\ \A n \in DOMAIN files0 : ~files0[n].ro) =>
        /\ result.apply.status = "ok"
        /\ \A n \in DOMAIN files0 : readTitle(files, n) = readTitle(files0, n)

\* the caption of file f is absent: no EXIF block, no tag, or a tag without a value
CaptionAbsent(f) ==
    \/ ~f.exif
    \/ f.tag.shape \in {"absent", "noresults", "valueerr", "other"}
    \/ f.tag.v = <<>>

\* C6 as stated: for a JPEG whose container parses, read-caption returns the empty
\* text and no error when the tag, the EXIF block or a sub-step is absent, and fails
\* only when the container does not parse; so a scan never aborts on such a file.
C6_AbsenceIsNotFailure ==
    /\ \A k \in 1..Len(entries) :
          (k < idx /\ entries[k].name \in DOMAIN files0
                   /\ files0[entries[k].name].kind = "regular"
                   /\ files0[entries[k].name].parses) =>
              /\ ~readTitle(files0, entries[k].name).err
              /\ CaptionAbsent(files0[entries[k].name]) =>
                    readTitle(files0, entries[k].name).title = <<>>
    /\ (result.scan.status = "err" /\ result.scan.msg = "read title") =>
          ~files0[result.scan.at].parses

\* the entry qualifies: a regular file that is not the sidecar file and whose
\* extension is .jpg or .jpeg, whatever the case
Qualifies(e) ==
    /\ e.kind = "regular"
    /\ ToLower(e.name) # csvFilename
    /\ \/ EqualFold(Ext(e.name), <<".", "j", "p", "g">>)
       \/ EqualFold(Ext(e.name), <<".", "j", "p", "e", "g">>)

RECURSIVE ExpectedRows(_)
ExpectedRows(es) ==
    IF es = <<>> THEN <<>>
    ELSE (IF Qualifies(Head(es))
          THEN encodeCSVField(Head(es).name) \o <<Comma>>
               \o encodeCSVField(readTitle(files0, Head(es).name).title) \o <<LF>>
          ELSE <<>>) \o ExpectedRows(Tail(es))

\* C7: when Scan returns without error, the sidecar file is the header row
\* filename,title followed by one row per qualifying entry, in listing order, and
\* nothing else; each row holds the entry's name and the caption read for it.
C7_ScanPostcondition ==
    result.scan.status = "ok" =>
        csv.content = FILENAME \o <<Comma>> \o TITLE \o <<LF>> \o ExpectedRows(entries)

C7_Witness ==
    /\ result.scan.status = "ok"
    /\ {entries[k].name : k \in 1..Len(entries)} = {C_JPG, B_JPEG, A_JPG, csvFilename, N_TXT, S_JPG}
    /\ readTitle(files0, A_JPG).title = <<"o", Comma, "d">>
    /\ Len(SplitLines(csv.content)) = 4

\* C9 as stated: when Scan or Apply returns, on an error path too, every file handle
\* it opened is closed and the output buffer has been flushed to its file (unless the
\* disk refused the bytes).
C9_ReleasedOnReturn ==
    (ScanReturned \/ ApplyReturned) =>
        /\ handles = {}
        /\ ~w.err => w.buf = <<>>

====
